---- MODULE Spec2Model ----
(***************************************************************************)
(* Property-mutation protocol of PropMatch (app/actions/property-actions). *)
(* Three server actions, createProperty, updateProperty and                *)
(* deleteProperty, orchestrate the Property table, the PropertyImage table *)
(* and the property-images storage bucket.  Every await on a store call is *)
(* one step of a call, so concurrent calls interleave at the store calls.  *)
(***************************************************************************)
EXTENDS Integers, Sequences, FiniteSets, TLC

\* ------------------------------------------------------------------ bounds
MaxCalls == 3      \* server-action invocations in one behaviour
MaxActive == 2     \* invocations in flight at the same time
MaxFiles == 2      \* entries of the form's 'images' list
MaxDeleted == 1    \* entries of the form's 'deletedImages' list
MaxPick == 3       \* files chosen in one use of the form's file input

\* --------------------------------------------------------------- constants
Users == {"u1", "u2"}
NoUser == "anon"
Sizes == {0, 1}                 \* File.size: empty or not
Bucket == "property-images"
PublicPrefix == <<"storage", "v1", "object", "public">>
Malformed == <<>>               \* a string new URL() rejects
ForeignUrl == <<"cdn", "x.jpg">>    \* a URL outside the bucket
MaxImages == 5                  \* [...prev, ...newImages].slice(0, 5)
Rates == {0, 3, 6}              \* parseInt(formData.get('rate')): below, in, above 1..5

CallIds == 1..MaxCalls

VARIABLES
    Property,       \* table Property: id -> [user_id, listing_title, rate]
    PropertyImage,  \* table PropertyImage: set of [property_id, image_url]
    storage,        \* bucket property-images: object key -> size
    pending,        \* object keys of the remove requests not yet answered
    calls,          \* per invocation: position and locals
    nextCall,       \* next invocation to arrive
    nextProp,       \* gen_random_uuid() for Property.id
    nextFile,       \* Date.now()-Math.random() file names
    limit,          \* invocations the deployment runs at the same time
    addPropertyForm \* AddPropertyForm: is it on screen, and its images state

vars == <<Property, PropertyImage, storage, pending, calls, nextCall, nextProp, nextFile, limit, addPropertyForm>>

stores == <<Property, PropertyImage, storage>>

\* ------------------------------------------------------------ pure helpers
PropId(n) == "p" \o ToString(n)

\* the listing_title the c-th request submits
Title(c) == "t" \o ToString(c)

FileName(n) == "f" \o ToString(n)

\* uploadImageToStorage: filePath = `property-images/${propertyId}/${fileName}`
FilePath(propertyId, n) == <<Bucket, propertyId, FileName(n)>>

\* storage.from('property-images').getPublicUrl(path):
\* <base>/storage/v1/object/public/<bucket>/<path>
GetPublicUrl(path) == PublicPrefix \o <<Bucket>> \o path

\* pathParts.findIndex(part => part === 'property-images'); 0 when absent
RECURSIVE FindIndexFrom(_, _, _)
FindIndexFrom(parts, part, k) ==
    IF k > Len(parts) THEN 0
    ELSE IF parts[k] = part THEN k
    ELSE FindIndexFrom(parts, part, k + 1)

FindIndex(parts, part) == FindIndexFrom(parts, part, 1)

\* deleteImageFromStorage up to the remove() call: the object keys it asks
\* the bucket to remove for one image URL (none when the URL does not parse
\* or has no 'property-images' segment)
RemoveKeys(imageUrl) ==
    IF imageUrl = Malformed THEN {}
    ELSE LET bucketIndex == FindIndex(imageUrl, Bucket)
         IN  IF bucketIndex # 0
             THEN {SubSeq(imageUrl, bucketIndex, Len(imageUrl))}
             ELSE {}

\* the filter left out
ValidImagesUnfiltered(images) == images

\* images.filter(file => file instanceof File && file.size > 0)
ValidImages(images) == SelectSeq(images, LAMBDA size : size > 0)

Range(s) == {s[k] : k \in 1..Len(s)}

SeqsUpTo(S, n) == UNION {[1..k -> S] : k \in 0..n}

\* ----------------------------------------------------- store-layer rules
\* RLS on Property (FOR UPDATE / FOR DELETE USING auth.uid() = user_id)
OwnsProperty(user, id) == id \in DOMAIN Property /\ Property[id].user_id = user

\* RLS on PropertyImage: the row's property belongs to auth.uid()
OwnsImage(user, row) == OwnsProperty(user, row.property_id)

\* "rate" INTEGER CHECK (rate >= 1 AND rate <= 5)
RateCheck(rate) == rate >= 1 /\ rate <= 5

\* the foreign key declared without ON DELETE CASCADE and not enforced
RemovePropertyNoCascade(id) ==
    /\ Property' = [p \in DOMAIN Property \ {id} |-> Property[p]]
    /\ PropertyImage' = PropertyImage

\* ON DELETE CASCADE of PropertyImage.property_id
RemoveProperty(id) ==
    /\ Property' = [p \in DOMAIN Property \ {id} |-> Property[p]]
    /\ PropertyImage' = {r \in PropertyImage : r.property_id # id}

\* ------------------------------------------------------------- call state
NoRows == [ok |-> FALSE, urls |-> {}]

IdleCall ==
    [op |-> "none", pc |-> "idle", user |-> NoUser, propertyId |-> "",
     title |-> "", rate |-> 0, images |-> <<>>, validImages |-> <<>>,
     deletedImageUrls |-> <<>>, deleteDbError |-> FALSE, i |-> 1,
     imageUrls |-> <<>>, selected |-> NoRows, outcome |-> "none",
     signals |-> <<>>, issued |-> FALSE, matched |-> FALSE]

\* useState<File[]>([]): the form as it is first rendered
FormMounted == [mounted |-> TRUE, images |-> <<>>]

Init ==
    /\ Property = <<>>
    /\ PropertyImage = {}
    /\ storage = <<>>
    /\ pending = {}
    /\ calls = [c \in CallIds |-> IdleCall]
    /\ nextCall = 1
    /\ nextProp = 1
    /\ nextFile = 1
    /\ limit = 1
    /\ addPropertyForm = FormMounted

\* the store after u1 created a property with one image, the call returned,
\* and a deployment that serves requests concurrently
InitRace ==
    /\ Property = [p \in {PropId(1)} |-> [user_id |-> "u1", listing_title |-> Title(1),
                                            rate |-> 3]]
    /\ PropertyImage = {[property_id |-> PropId(1),
                         image_url |-> GetPublicUrl(FilePath(PropId(1), 1))]}
    /\ storage = [k \in {FilePath(PropId(1), 1)} |-> 1]
    /\ pending = {}
    /\ calls = [c \in CallIds |-> IF c = 1 THEN [IdleCall EXCEPT !.pc = "returned"]
                                  ELSE IdleCall]
    /\ nextCall = 2
    /\ nextProp = 2
    /\ nextFile = 2
    /\ limit = MaxActive
    /\ addPropertyForm = FormMounted

\* the same store in a deployment that serves one request at a time
InitSerial ==
    /\ Property = [p \in {PropId(1)} |-> [user_id |-> "u1", listing_title |-> Title(1),
                                            rate |-> 3]]
    /\ PropertyImage = {[property_id |-> PropId(1),
                         image_url |-> GetPublicUrl(FilePath(PropId(1), 1))]}
    /\ storage = [k \in {FilePath(PropId(1), 1)} |-> 1]
    /\ pending = {}
    /\ calls = [c \in CallIds |-> IF c = 1 THEN [IdleCall EXCEPT !.pc = "returned"]
                                  ELSE IdleCall]
    /\ nextCall = 2
    /\ nextProp = 2
    /\ nextFile = 2
    /\ limit = 1
    /\ addPropertyForm = FormMounted

Active(c) == calls[c].pc \notin {"idle", "done", "returned"}

\* a request arrives: requests are numbered in arrival order, and a
\* response on its way reaches its caller before the next request comes in.
\* The form's list and the stores share no state: the form is filled in and
\* submitted before the requests are served
Arrives(c) ==
    /\ nextCall = c
    /\ ~addPropertyForm.mounted
    /\ calls[c].pc = "idle"
    /\ \A d \in CallIds : calls[d].pc # "done"
    /\ Cardinality({d \in CallIds : Active(d)}) < limit
    /\ nextCall' = nextCall + 1

\* the call has returned with an outcome and the signals it emitted; its
\* locals are out of scope
Returned(call, outcome, signals) ==
    [IdleCall EXCEPT !.op = call.op, !.user = call.user,
                     !.propertyId = call.propertyId, !.issued = call.issued,
                     !.images = call.images, !.validImages = call.validImages,
                     !.imageUrls = call.imageUrls, !.i = call.i,
                     !.matched = call.matched, !.title = call.title,
                     !.deleteDbError = call.deleteDbError,
                     !.selected = call.selected,
                     !.pc = "done", !.outcome = outcome, !.signals = signals]

\* throw new Error(...): the call ends without signals
Throw(call, kind) == Returned(call, kind, <<>>)

\* revalidatePath('/'); redirect('/')
Complete(call) == Returned(call, "completed", <<"revalidate", "redirect">>)

\* ids a caller can name: every id handed out so far
KnownProps == {PropId(n) : n \in 1..(nextProp - 1)}

\* deletedImages values a caller can send: the public URL of a stored file,
\* the same URL without the bucket segment, a recorded image_url, a URL
\* outside the bucket, or a string that is no URL
CandidateUrls ==
    {GetPublicUrl(k) : k \in DOMAIN storage}
        \cup {PublicPrefix \o k : k \in DOMAIN storage}
        \cup {r.image_url : r \in PropertyImage}
        \cup {ForeignUrl, Malformed}

\* a store call is issued by the call
Issue(call) == [call EXCEPT !.issued = TRUE]

\* the check for a user left out
AuthCheckSkipped(call, next) == [call EXCEPT !.pc = next]

\* if (!user) throw new Error("You must be logged in ..."), else go on
AuthCheck(call, next) ==
    IF call.user = NoUser THEN Throw(call, "AuthenticationRequired")
    ELSE [call EXCEPT !.pc = next]

\* ------------------------------------------------------- shared helpers
\* lines 36-58: one uploadImageToStorage; the effect on the bucket
Upload(call, ok) ==
    LET path == FilePath(call.propertyId, nextFile)
    IN  IF ok
        THEN /\ storage' = [k \in DOMAIN storage \cup {path} |->
                               IF k = path THEN call.validImages[call.i]
                               ELSE storage[k]]
             /\ nextFile' = nextFile + 1
        ELSE UNCHANGED <<storage, nextFile>>

\* lines 53-57: the public URL uploadImageToStorage returns
UploadedUrl(call) == GetPublicUrl(FilePath(call.propertyId, nextFile))

\* lines 112-127: the batch insert into PropertyImage is accepted when the
\* request goes through, the foreign key resolves and the RLS insert policy
\* finds the property owned by the caller
InsertAccepted(call, ok) == ok /\ OwnsProperty(call.user, call.propertyId)

\* only the first location inserted
ImageRecordsFirstOnly(call) ==
    {[property_id |-> call.propertyId, image_url |-> call.imageUrls[1]]}

\* lines 115-118
ImageRecords(call) ==
    {[property_id |-> call.propertyId, image_url |-> url] : url \in Range(call.imageUrls)}

\* lines 75-95 up to the remove() call, for every URL of a list: the
\* requests handed to the bucket without awaiting them
RemoveRequests(urls) == UNION {RemoveKeys(url) : url \in urls}

\* ------------------------------------------------------- createProperty
\* lines 182-188: createClient, await getUser; formData is the argument,
\* whose 'rate' field the request fixes
CreateBegin(c) ==
    /\ Arrives(c)
    /\ \E user \in Users \cup {NoUser}, rate \in Rates :
         LET call == [calls[c] EXCEPT !.op = "create", !.user = user, !.rate = rate]
         IN  calls' = [calls EXCEPT ![c] = AuthCheck(call, "insertProperty")]
    /\ UNCHANGED <<Property, PropertyImage, storage, pending, nextProp, nextFile, limit, addPropertyForm>>

\* lines 190-224: the form is read (title, rate, images, validImages), then
\* insert into Property ... select().single(); rate is not read again
CreateInsertProperty(c) ==
    /\ calls[c].op = "create"
    /\ calls[c].pc = "insertProperty"
    /\ \E ok \in BOOLEAN, images \in SeqsUpTo(Sizes, MaxFiles) :
         LET rate == calls[c].rate
             call == [Issue(calls[c]) EXCEPT !.title = Title(c), !.rate = 0,
                                             !.images = images,
                                             !.validImages = ValidImages(images)]
             id == PropId(nextProp)
         IN  IF ok /\ RateCheck(rate)
             THEN /\ Property' = [p \in DOMAIN Property \cup {id} |->
                        IF p = id
                        THEN [user_id |-> call.user, listing_title |-> call.title,
                              rate |-> rate]
                        ELSE Property[p]]
                  /\ nextProp' = nextProp + 1
                  /\ calls' = [calls EXCEPT ![c] =
                        IF Len(call.validImages) > 0
                        THEN [call EXCEPT !.propertyId = id, !.pc = "upload"]
                        ELSE Complete([call EXCEPT !.propertyId = id])]
             ELSE /\ calls' = [calls EXCEPT ![c] = Throw(call, "PersistenceFailure")]
                  /\ UNCHANGED <<Property, nextProp>>
    /\ UNCHANGED <<PropertyImage, storage, pending, nextCall, nextFile, limit, addPropertyForm>>

\* createProperty with updateProperty's loop: a failed upload is logged and
\* the next file is uploaded
CreateUploadContinues(c) ==
    /\ calls[c].op = "create"
    /\ calls[c].pc = "upload"
    /\ \E ok \in BOOLEAN :
         LET call == Issue(calls[c])
             urls == IF ok THEN Append(call.imageUrls, UploadedUrl(call))
                     ELSE call.imageUrls
         IN  /\ Upload(call, ok)
             /\ calls' = [calls EXCEPT ![c] =
                   [call EXCEPT !.imageUrls = urls, !.i = @ + 1,
                                !.pc = IF call.i = Len(call.validImages)
                                       THEN "saveImageUrls" ELSE "upload"]]
    /\ UNCHANGED <<Property, PropertyImage, pending, nextCall, nextProp, limit, addPropertyForm>>

\* lines 228-231 (one iteration) and the catch at 234 when it throws
CreateUpload(c) ==
    /\ calls[c].op = "create"
    /\ calls[c].pc = "upload"
    /\ \E ok \in BOOLEAN :
         LET call == Issue(calls[c])
         IN  /\ Upload(call, ok)
             /\ calls' = [calls EXCEPT ![c] =
                   IF ok
                   THEN [call EXCEPT !.imageUrls = Append(@, UploadedUrl(call)),
                                     !.i = @ + 1,
                                     !.pc = IF call.i = Len(call.validImages)
                                            THEN "saveImageUrls" ELSE "upload"]
                   ELSE [call EXCEPT !.i = @ + 1, !.pc = "rollback",
                                     !.outcome = "UploadFailure"]]
    /\ UNCHANGED <<Property, PropertyImage, pending, nextCall, nextProp, limit, addPropertyForm>>

\* line 233 and the catch at 234 when saveImageUrls throws
CreateSaveImageUrls(c) ==
    /\ calls[c].op = "create"
    /\ calls[c].pc = "saveImageUrls"
    /\ \E ok \in BOOLEAN :
         LET call == Issue(calls[c])
         IN  IF InsertAccepted(call, ok)
             THEN /\ PropertyImage' = PropertyImage \cup ImageRecords(call)
                  /\ calls' = [calls EXCEPT ![c] = Complete(call)]
             ELSE /\ calls' = [calls EXCEPT ![c] =
                        [call EXCEPT !.pc = "rollback", !.outcome = "PersistenceFailure"]]
                  /\ UNCHANGED PropertyImage
    /\ UNCHANGED <<Property, storage, pending, nextCall, nextProp, nextFile, limit, addPropertyForm>>

\* the catch block also handing the uploaded files to deleteImageFromStorage,
\* unawaited
CreateRollbackRemovesFiles(c) ==
    /\ calls[c].op = "create"
    /\ calls[c].pc = "rollback"
    /\ \E ok \in BOOLEAN :
         LET call == Issue(calls[c])
         IN  /\ IF ok /\ OwnsProperty(call.user, call.propertyId)
                THEN RemoveProperty(call.propertyId)
                ELSE UNCHANGED <<Property, PropertyImage>>
             /\ pending' = pending \cup RemoveRequests(Range(call.imageUrls))
             /\ calls' = [calls EXCEPT ![c] = Throw(call, call.outcome)]
    /\ UNCHANGED <<storage, nextCall, nextProp, nextFile, limit, addPropertyForm>>

\* the catch block falling through to revalidatePath and redirect
CreateRollbackFallsThrough(c) ==
    /\ calls[c].op = "create"
    /\ calls[c].pc = "rollback"
    /\ \E ok \in BOOLEAN :
         LET call == Issue(calls[c])
         IN  /\ IF ok /\ OwnsProperty(call.user, call.propertyId)
                THEN RemoveProperty(call.propertyId)
                ELSE UNCHANGED <<Property, PropertyImage>>
             /\ calls' = [calls EXCEPT ![c] =
                   Returned(call, call.outcome, <<"revalidate", "redirect">>)]
    /\ UNCHANGED <<storage, pending, nextCall, nextProp, nextFile, limit, addPropertyForm>>

\* lines 234-237: delete the Property row by id (result ignored), rethrow
CreateRollback(c) ==
    /\ calls[c].op = "create"
    /\ calls[c].pc = "rollback"
    /\ \E ok \in BOOLEAN :
         LET call == Issue(calls[c])
         IN  /\ IF ok /\ OwnsProperty(call.user, call.propertyId)
                THEN RemoveProperty(call.propertyId)
                ELSE UNCHANGED <<Property, PropertyImage>>
             /\ calls' = [calls EXCEPT ![c] = Throw(call, call.outcome)]
    /\ UNCHANGED <<storage, pending, nextCall, nextProp, nextFile, limit, addPropertyForm>>

\* ------------------------------------------------------- updateProperty
\* lines 271-277: createClient, await getUser; formData is an argument
UpdateBegin(c) ==
    /\ Arrives(c)
    /\ \E user \in Users \cup {NoUser}, propertyId \in KnownProps, rate \in Rates :
         LET call == [calls[c] EXCEPT !.op = "update", !.user = user,
                                      !.propertyId = propertyId, !.rate = rate]
         IN  calls' = [calls EXCEPT ![c] = AuthCheck(call, "updateProperty")]
    /\ UNCHANGED <<Property, PropertyImage, storage, pending, nextProp, nextFile, limit, addPropertyForm>>

\* where updateProperty goes once the image rows are dealt with (line 328)
AfterDeletes(call) ==
    IF Len(call.validImages) > 0
    THEN [call EXCEPT !.pc = "upload", !.deletedImageUrls = <<>>]
    ELSE Complete(call)

\* lines 295-305: the columns the update sets
UpdateFields(row, title, rate) ==
    [row EXCEPT !.listing_title = title, !.rate = rate]

\* the file deletions handed to the bucket before the row update is issued
UpdatePropertyRowEager(c) ==
    /\ calls[c].op = "update"
    /\ calls[c].pc = "updateProperty"
    /\ \E ok \in BOOLEAN, images \in SeqsUpTo(Sizes, MaxFiles),
          deleted \in SeqsUpTo(CandidateUrls, MaxDeleted) :
         LET rate == calls[c].rate
             owned == OwnsProperty(calls[c].user, calls[c].propertyId)
             accepted == ok /\ (owned => RateCheck(rate))
             call == [Issue(calls[c]) EXCEPT !.title = Title(c), !.rate = 0,
                                             !.images = images,
                                             !.validImages = ValidImages(images),
                                             !.deletedImageUrls = deleted,
                                             !.matched = accepted /\ owned]
         IN  /\ pending' = pending \cup RemoveRequests(Range(deleted))
             /\ IF accepted
                THEN /\ Property' = [p \in DOMAIN Property |->
                           IF p = call.propertyId /\ Property[p].user_id = call.user
                           THEN UpdateFields(Property[p], call.title, rate)
                           ELSE Property[p]]
                     /\ calls' = [calls EXCEPT ![c] =
                           IF Len(call.deletedImageUrls) > 0
                           THEN [call EXCEPT !.pc = "deleteImageRows"]
                           ELSE AfterDeletes(call)]
                ELSE /\ calls' = [calls EXCEPT ![c] = Throw(call, "PersistenceFailure")]
                     /\ UNCHANGED Property
    /\ UNCHANGED <<PropertyImage, storage, nextCall, nextProp, nextFile, limit, addPropertyForm>>

\* the error of the row update logged and the later steps run all the same
UpdatePropertyRowIgnoresError(c) ==
    /\ calls[c].op = "update"
    /\ calls[c].pc = "updateProperty"
    /\ \E ok \in BOOLEAN, images \in SeqsUpTo(Sizes, MaxFiles),
          deleted \in SeqsUpTo(CandidateUrls, MaxDeleted) :
         LET rate == calls[c].rate
             owned == OwnsProperty(calls[c].user, calls[c].propertyId)
             accepted == ok /\ (owned => RateCheck(rate))
             call == [Issue(calls[c]) EXCEPT !.title = Title(c), !.rate = 0,
                                             !.images = images,
                                             !.validImages = ValidImages(images),
                                             !.deletedImageUrls = deleted,
                                             !.matched = accepted /\ owned]
         IN  IF accepted
             THEN /\ Property' = [p \in DOMAIN Property |->
                        IF p = call.propertyId /\ Property[p].user_id = call.user
                        THEN UpdateFields(Property[p], call.title, rate)
                        ELSE Property[p]]
                  /\ calls' = [calls EXCEPT ![c] =
                        IF Len(call.deletedImageUrls) > 0
                        THEN [call EXCEPT !.pc = "deleteImageRows"]
                        ELSE AfterDeletes(call)]
             ELSE /\ calls' = [calls EXCEPT ![c] =
                        IF Len(call.deletedImageUrls) > 0
                        THEN [call EXCEPT !.pc = "deleteImageRows"]
                        ELSE AfterDeletes(call)]
                  /\ UNCHANGED Property
    /\ UNCHANGED <<PropertyImage, storage, pending, nextCall, nextProp, nextFile, limit, addPropertyForm>>

\* lines 279-313: the form is read (title, rate, images, validImages,
\* deletedImageUrls), then update Property ... eq(id) eq(user_id); the CHECK
\* on rate is evaluated for the rows the update matches
UpdatePropertyRow(c) ==
    /\ calls[c].op = "update"
    /\ calls[c].pc = "updateProperty"
    /\ \E ok \in BOOLEAN, images \in SeqsUpTo(Sizes, MaxFiles),
          deleted \in SeqsUpTo(CandidateUrls, MaxDeleted) :
         LET rate == calls[c].rate
             owned == OwnsProperty(calls[c].user, calls[c].propertyId)
             accepted == ok /\ (owned => RateCheck(rate))
             call == [Issue(calls[c]) EXCEPT !.title = Title(c), !.rate = 0,
                                             !.images = images,
                                             !.validImages = ValidImages(images),
                                             !.deletedImageUrls = deleted,
                                             !.matched = accepted /\ owned]
         IN  IF accepted
             THEN /\ Property' = [p \in DOMAIN Property |->
                        IF p = call.propertyId /\ Property[p].user_id = call.user
                        THEN UpdateFields(Property[p], call.title, rate)
                        ELSE Property[p]]
                  /\ calls' = [calls EXCEPT ![c] =
                        IF Len(call.deletedImageUrls) > 0
                        THEN [call EXCEPT !.pc = "deleteImageRows"]
                        ELSE AfterDeletes(call)]
             ELSE /\ calls' = [calls EXCEPT ![c] = Throw(call, "PersistenceFailure")]
                  /\ UNCHANGED Property
    /\ UNCHANGED <<PropertyImage, storage, pending, nextCall, nextProp, nextFile, limit, addPropertyForm>>

\* the files are deleted and the delete from PropertyImage is forgotten
UpdateDeleteImageRowsSkipped(c) ==
    /\ calls[c].op = "update"
    /\ calls[c].pc = "deleteImageRows"
    /\ pending' = pending \cup RemoveRequests(Range(calls[c].deletedImageUrls))
    /\ calls' = [calls EXCEPT ![c] = AfterDeletes(Issue(calls[c]))]
    /\ UNCHANGED <<Property, PropertyImage, storage, nextCall, nextProp, nextFile, limit, addPropertyForm>>

\* a failed delete from PropertyImage sending the call back to the row
\* update, to be tried again
UpdateDeleteImageRowsRetries(c) ==
    /\ calls[c].op = "update"
    /\ calls[c].pc = "deleteImageRows"
    /\ \E ok \in BOOLEAN :
         LET call == Issue(calls[c])
             urls == Range(call.deletedImageUrls)
         IN  /\ PropertyImage' =
                   IF ok
                   THEN {r \in PropertyImage :
                            ~(r.image_url \in urls /\ OwnsImage(call.user, r))}
                   ELSE PropertyImage
             /\ pending' = IF ok THEN pending \cup RemoveRequests(urls) ELSE pending
             /\ calls' = [calls EXCEPT ![c] =
                   IF ok THEN AfterDeletes([call EXCEPT !.deleteDbError = FALSE])
                   ELSE [call EXCEPT !.pc = "updateProperty"]]
    /\ UNCHANGED <<Property, storage, nextCall, nextProp, nextFile, limit, addPropertyForm>>

\* lines 314-326: delete from PropertyImage ... in(image_url), error only
\* logged; then one unawaited deleteImageFromStorage per URL
UpdateDeleteImageRows(c) ==
    /\ calls[c].op = "update"
    /\ calls[c].pc = "deleteImageRows"
    /\ \E ok \in BOOLEAN :
         LET call == Issue(calls[c])
             urls == Range(call.deletedImageUrls)
         IN  /\ PropertyImage' =
                   IF ok
                   THEN {r \in PropertyImage :
                            ~(r.image_url \in urls /\ OwnsImage(call.user, r))}
                   ELSE PropertyImage
             /\ pending' = pending \cup RemoveRequests(urls)
             /\ calls' = [calls EXCEPT ![c] =
                   AfterDeletes([call EXCEPT !.deleteDbError = ~ok])]
    /\ UNCHANGED <<Property, storage, nextCall, nextProp, nextFile, limit, addPropertyForm>>

\* updateProperty with createProperty's catch block: a failed upload deletes
\* the Property row and is rethrown
UpdateUploadRollsBack(c) ==
    /\ calls[c].op = "update"
    /\ calls[c].pc = "upload"
    /\ \E ok \in BOOLEAN :
         LET call == Issue(calls[c])
             last == call.i = Len(call.validImages)
         IN  /\ Upload(call, ok)
             /\ IF ok \/ ~OwnsProperty(call.user, call.propertyId)
                THEN UNCHANGED <<Property, PropertyImage>>
                ELSE RemoveProperty(call.propertyId)
             /\ calls' = [calls EXCEPT ![c] =
                   IF ~ok THEN Throw([call EXCEPT !.i = @ + 1], "UploadFailure")
                   ELSE [call EXCEPT !.imageUrls = Append(@, UploadedUrl(call)),
                                     !.i = @ + 1,
                                     !.pc = IF last THEN "saveImageUrls" ELSE "upload"]]
    /\ UNCHANGED <<pending, nextCall, nextProp, limit, addPropertyForm>>

\* the loop left at the first failed upload: the later files are dropped
UpdateUploadStopsAtFailure(c) ==
    /\ calls[c].op = "update"
    /\ calls[c].pc = "upload"
    /\ \E ok \in BOOLEAN :
         LET call == Issue(calls[c])
             urls == IF ok THEN Append(call.imageUrls, UploadedUrl(call))
                     ELSE call.imageUrls
             last == ~ok \/ call.i = Len(call.validImages)
         IN  /\ Upload(call, ok)
             /\ calls' = [calls EXCEPT ![c] =
                   IF last /\ Len(urls) = 0 THEN Complete([call EXCEPT !.i = @ + 1])
                   ELSE [call EXCEPT !.imageUrls = urls, !.i = @ + 1,
                                     !.pc = IF last THEN "saveImageUrls" ELSE "upload"]]
    /\ UNCHANGED <<Property, PropertyImage, pending, nextCall, nextProp, limit, addPropertyForm>>

\* lines 331-342: one iteration; a failed upload is logged and skipped
UpdateUpload(c) ==
    /\ calls[c].op = "update"
    /\ calls[c].pc = "upload"
    /\ \E ok \in BOOLEAN :
         LET call == Issue(calls[c])
             urls == IF ok THEN Append(call.imageUrls, UploadedUrl(call))
                     ELSE call.imageUrls
             last == call.i = Len(call.validImages)
         IN  /\ Upload(call, ok)
             /\ calls' = [calls EXCEPT ![c] =
                   IF last /\ Len(urls) = 0 THEN Complete([call EXCEPT !.i = @ + 1])
                   ELSE [call EXCEPT !.imageUrls = urls, !.i = @ + 1,
                                     !.pc = IF last THEN "saveImageUrls" ELSE "upload"]]
    /\ UNCHANGED <<Property, PropertyImage, pending, nextCall, nextProp, limit, addPropertyForm>>

\* lines 340-346: saveImageUrls, its error thrown to the caller
UpdateSaveImageUrls(c) ==
    /\ calls[c].op = "update"
    /\ calls[c].pc = "saveImageUrls"
    /\ \E ok \in BOOLEAN :
         LET call == Issue(calls[c])
         IN  IF InsertAccepted(call, ok)
             THEN /\ PropertyImage' = PropertyImage \cup ImageRecords(call)
                  /\ calls' = [calls EXCEPT ![c] = Complete(call)]
             ELSE /\ calls' = [calls EXCEPT ![c] = Throw(call, "PersistenceFailure")]
                  /\ UNCHANGED PropertyImage
    /\ UNCHANGED <<Property, storage, pending, nextCall, nextProp, nextFile, limit, addPropertyForm>>

\* ------------------------------------------------------- deleteProperty
\* lines 369-375
DeleteBegin(c) ==
    /\ Arrives(c)
    /\ \E user \in Users \cup {NoUser}, propertyId \in KnownProps :
         LET call == [calls[c] EXCEPT !.op = "delete", !.user = user,
                                      !.propertyId = propertyId]
         IN  calls' = [calls EXCEPT ![c] = AuthCheck(call, "selectImages")]
    /\ UNCHANGED <<Property, PropertyImage, storage, pending, nextProp, nextFile, limit, addPropertyForm>>

\* lines 377-380: select image_url from PropertyImage eq(property_id); the
\* error is dropped and data is null then
DeleteSelectImages(c) ==
    /\ calls[c].op = "delete"
    /\ calls[c].pc = "selectImages"
    /\ \E ok \in BOOLEAN :
         LET call == Issue(calls[c])
             rows == {r \in PropertyImage :
                         r.property_id = call.propertyId /\ OwnsImage(call.user, r)}
         IN  calls' = [calls EXCEPT ![c] =
                 [call EXCEPT !.pc = "deleteProperty",
                              !.selected = IF ok
                                           THEN [ok |-> TRUE, urls |-> {r.image_url : r \in rows}]
                                           ELSE NoRows]]
    /\ UNCHANGED <<Property, PropertyImage, storage, pending, nextCall, nextProp, nextFile, limit, addPropertyForm>>

\* the files are cleaned up and success is signalled whatever the row
\* deletion returned
DeletePropertyRowAnyway(c) ==
    /\ calls[c].op = "delete"
    /\ calls[c].pc = "deleteProperty"
    /\ \E ok \in BOOLEAN :
         LET call == Issue(calls[c])
         IN  /\ IF ok /\ OwnsProperty(call.user, call.propertyId)
                THEN RemoveProperty(call.propertyId)
                ELSE UNCHANGED <<Property, PropertyImage>>
             /\ pending' = pending \cup RemoveRequests(call.selected.urls)
             /\ calls' = [calls EXCEPT ![c] = Complete(call)]
    /\ UNCHANGED <<storage, nextCall, nextProp, nextFile, limit, addPropertyForm>>

\* lines 382-399: delete from Property eq(id) eq(user_id); then one
\* unawaited deleteImageFromStorage per selected row
DeletePropertyRow(c) ==
    /\ calls[c].op = "delete"
    /\ calls[c].pc = "deleteProperty"
    /\ \E ok \in BOOLEAN :
         LET call == Issue(calls[c])
         IN  IF ok
             THEN /\ IF OwnsProperty(call.user, call.propertyId)
                     THEN RemoveProperty(call.propertyId)
                     ELSE UNCHANGED <<Property, PropertyImage>>
                  /\ pending' = pending \cup RemoveRequests(call.selected.urls)
                  /\ calls' = [calls EXCEPT ![c] = Complete(call)]
             ELSE /\ calls' = [calls EXCEPT ![c] = Throw(call, "PersistenceFailure")]
                  /\ UNCHANGED <<Property, PropertyImage, pending>>
    /\ UNCHANGED <<storage, nextCall, nextProp, nextFile, limit, addPropertyForm>>

\* ---------------------------------------------------------- object store
\* a failed removal cancelling the requests that are still out
StorageRemoveAbortsOnError(key) ==
    /\ key \in pending
    /\ \E ok \in BOOLEAN :
         /\ storage' = IF ok
                       THEN [k \in DOMAIN storage \ {key} |-> storage[k]]
                       ELSE storage
         /\ pending' = IF ok THEN pending \ {key} ELSE {}
    /\ UNCHANGED <<Property, PropertyImage, calls, nextCall, nextProp, nextFile, limit, addPropertyForm>>

\* lines 84-90: the bucket answers one remove request; an error is logged
StorageRemove(key) ==
    /\ key \in pending
    /\ pending' = pending \ {key}
    /\ \E ok \in BOOLEAN :
         storage' = IF ok
                    THEN [k \in DOMAIN storage \ {key} |-> storage[k]]
                    ELSE storage
    /\ UNCHANGED <<Property, PropertyImage, calls, nextCall, nextProp, nextFile, limit, addPropertyForm>>

\* the response has reached the caller: the invocation's locals are gone
CallReturn(c) ==
    /\ calls[c].pc = "done"
    /\ calls' = [calls EXCEPT ![c] = [IdleCall EXCEPT !.pc = "returned"]]
    /\ UNCHANGED <<Property, PropertyImage, storage, pending, nextCall, nextProp, nextFile, limit, addPropertyForm>>

\* ------------------------------------------------------ AddPropertyForm
\* Array.prototype.slice(0, n)
Slice(s, n) == SubSeq(s, 1, IF Len(s) < n THEN Len(s) ELSE n)

\* the list without the entry at index
WithoutIndex(s, index) ==
    [j \in 1..(Len(s) - 1) |-> IF j < index THEN s[j] ELSE s[j + 1]]

\* the new files appended with no limit
HandleImageChangeUnlimited(newImages) ==
    /\ addPropertyForm.mounted
    /\ addPropertyForm' = [addPropertyForm EXCEPT !.images = @ \o newImages]
    /\ UNCHANGED <<Property, PropertyImage, storage, pending, calls, nextCall, nextProp, nextFile, limit>>

\* lines 548-553: setImages(prev => [...prev, ...newImages].slice(0, 5))
HandleImageChange(newImages) ==
    /\ addPropertyForm.mounted
    /\ addPropertyForm' = [addPropertyForm EXCEPT
                              !.images = Slice(@ \o newImages, MaxImages)]
    /\ UNCHANGED <<Property, PropertyImage, storage, pending, calls, nextCall, nextProp, nextFile, limit>>

\* lines 559-561: setImages(prev => prev.filter((_, i) => i !== index))
HandleRemoveImage(index) ==
    /\ addPropertyForm.mounted
    /\ index \in 1..Len(addPropertyForm.images)
    /\ addPropertyForm' = [addPropertyForm EXCEPT !.images = WithoutIndex(@, index)]
    /\ UNCHANGED <<Property, PropertyImage, storage, pending, calls, nextCall, nextProp, nextFile, limit>>

\* lines 567-600: every image of the list is appended to formData and
\* createProperty is called with it; the page is left (redirect('/'))
OnSubmit ==
    /\ addPropertyForm.mounted
    /\ addPropertyForm' = [mounted |-> FALSE, images |-> <<>>]
    /\ UNCHANGED <<Property, PropertyImage, storage, pending, calls, nextCall, nextProp, nextFile, limit>>

Next ==
    \/ \E newImages \in SeqsUpTo(Sizes, MaxPick) \ {<<>>} : HandleImageChange(newImages)
    \/ \E index \in 1..MaxImages : HandleRemoveImage(index)
    \/ OnSubmit
    \/ \E c \in CallIds :
        \/ CreateBegin(c)
        \/ CreateInsertProperty(c)
        \/ CreateUpload(c)
        \/ CreateSaveImageUrls(c)
        \/ CreateRollback(c)
        \/ UpdateBegin(c)
        \/ UpdatePropertyRow(c)
        \/ UpdateDeleteImageRows(c)
        \/ UpdateUpload(c)
        \/ UpdateSaveImageUrls(c)
        \/ DeleteBegin(c)
        \/ DeleteSelectImages(c)
        \/ DeletePropertyRow(c)
        \/ CallReturn(c)
    \/ \E key \in pending : StorageRemove(key)

Spec == Init /\ [][Next]_vars

SpecRace == InitRace /\ [][Next]_vars

\* the awaited store calls of one invocation: each step below is the return
\* of the call the invocation is waiting for
StoreCallReturns(c) ==
    \/ CreateInsertProperty(c)
    \/ CreateUpload(c)
    \/ CreateSaveImageUrls(c)
    \/ CreateRollback(c)
    \/ UpdatePropertyRow(c)
    \/ UpdateDeleteImageRows(c)
    \/ UpdateUpload(c)
    \/ UpdateSaveImageUrls(c)
    \/ DeleteSelectImages(c)
    \/ DeletePropertyRow(c)

\* every store call an invocation has issued eventually returns
SpecLive ==
    /\ InitSerial
    /\ [][Next]_vars
    /\ \A c \in CallIds : WF_vars(StoreCallReturns(c))

\* ======================================================== properties
\* the call takes its last step and returns
Returns(c) == calls[c].pc \notin {"idle", "done", "returned"} /\ calls'[c].pc = "done"

\* the call takes a step of its own
StepOf(c) == calls'[c] # calls[c]

\* a signed-in caller names a property that exists and belongs to someone else
Mismatch(c) ==
    /\ calls[c].user # NoUser
    /\ calls[c].propertyId \in DOMAIN Property
    /\ Property[calls[c].propertyId].user_id # calls[c].user

RowsOf(id) == {r \in PropertyImage : r.property_id = id}

\* positive-size entries of a form's images list
NonEmptyFiles(images) == {j \in 1..Len(images) : images[j] > 0}

\* C1: a createProperty call in which an image upload failed leaves, once it
\* has returned, no Property row that it inserted.
C1_CreateAtomicity ==
    \A c \in CallIds :
        (calls[c].op = "create" /\ calls[c].pc = "done"
            /\ calls[c].outcome = "UploadFailure")
        => calls[c].propertyId \notin DOMAIN Property

\* C2: a createProperty call whose uploads all succeeded and whose batch
\* insert of PropertyImage rows failed has deleted its Property row, left no
\* PropertyImage row for it, and raised the failure.
C2_InsertFailureRollsBack ==
    \A c \in CallIds :
        (calls[c].op = "create" /\ calls[c].pc = "done"
            /\ calls[c].outcome = "PersistenceFailure"
            /\ Len(calls[c].validImages) > 0
            /\ Len(calls[c].imageUrls) = Len(calls[c].validImages))
        => /\ calls[c].propertyId \notin DOMAIN Property
           /\ RowsOf(calls[c].propertyId) = {}
           /\ calls[c].signals = <<>>

\* C3: when the owner's deleteProperty(P) completes, no PropertyImage row
\* references P and a storage deletion has been issued for every location
\* P's rows held.
C3_DeleteCompleteness ==
    [][\A c \in CallIds :
          (calls[c].op = "delete" /\ Returns(c) /\ calls'[c].outcome = "completed"
              /\ OwnsProperty(calls[c].user, calls[c].propertyId))
          => /\ \A r \in PropertyImage' : r.property_id # calls[c].propertyId
             /\ \A r \in RowsOf(calls[c].propertyId) :
                   /\ RemoveKeys(r.image_url) # {}
                   /\ RemoveKeys(r.image_url) \subseteq pending']_vars

\* C4: an updateProperty call on a property owned by another user changes
\* no Property row, no PropertyImage row and no stored file, and returns
\* NotFoundOrForbidden.
C4_UpdateOwnershipIsolation ==
    [][\A c \in CallIds :
          (calls[c].op = "update" /\ Mismatch(c) /\ StepOf(c))
          => /\ UNCHANGED stores
             /\ calls'[c].pc = "done" => calls'[c].outcome = "NotFoundOrForbidden"]_vars

\* C5: a deleteProperty call on a property owned by another user changes no
\* Property row, no PropertyImage row and no stored file, and returns
\* NotFoundOrForbidden instead of signalling success.
C5_DeleteOwnershipIsolation ==
    [][\A c \in CallIds :
          (calls[c].op = "delete" /\ Mismatch(c) /\ StepOf(c))
          => /\ UNCHANGED stores
             /\ calls'[c].pc = "done"
                   => /\ calls'[c].outcome = "NotFoundOrForbidden"
                      /\ calls'[c].signals = <<>>]_vars

\* C6: when an updateProperty call that matched the caller's own row returns
\* after uploads were attempted and none succeeded, the Property row exists
\* and holds the fields the call submitted.
C6_UpdateIndependence ==
    \A c \in CallIds :
        (calls[c].op = "update" /\ calls[c].pc = "done" /\ calls[c].matched
            /\ calls[c].i > 1 /\ calls[c].imageUrls = <<>>)
        => /\ calls[c].propertyId \in DOMAIN Property
           /\ Property[calls[c].propertyId].listing_title = calls[c].title

C6_Witness ==
    \E c \in CallIds :
        /\ calls[c].op = "update" /\ calls[c].pc = "done" /\ calls[c].matched
        /\ Len(calls[c].validImages) = MaxFiles
        /\ calls[c].i > MaxFiles /\ calls[c].imageUrls = <<>>
        /\ calls[c].outcome = "completed"
        /\ Property[calls[c].propertyId].listing_title = Title(c)

\* C7: no zero-byte file is ever stored in the bucket, and a call uploads and
\* records at most as many images as its form held files of size > 0.
C7_ZeroByteFiltered ==
    /\ \A k \in DOMAIN storage : storage[k] > 0
    /\ \A c \in CallIds :
          /\ Len(calls[c].imageUrls) <= Cardinality(NonEmptyFiles(calls[c].images))
          /\ calls[c].pc = "upload" => calls[c].i <= Cardinality(NonEmptyFiles(calls[c].images))

C7_Witness ==
    \E c \in CallIds :
        /\ calls[c].op \in {"create", "update"} /\ calls[c].outcome = "completed"
        /\ 0 \in Range(calls[c].images)
        /\ calls[c].imageUrls # <<>>
        /\ \A url \in Range(calls[c].imageUrls) :
              [property_id |-> calls[c].propertyId, image_url |-> url] \in PropertyImage

\* C8: a call for which no user is resolved raises AuthenticationRequired in
\* its first step, having issued no store operation: tables, bucket and
\* pending requests are unchanged and no signal is emitted.
C8_AuthBeforeStores ==
    [][\A c \in CallIds :
          (calls[c].pc = "idle" /\ calls'[c].pc # "idle" /\ calls'[c].user = NoUser)
          => /\ calls'[c].pc = "done"
             /\ calls'[c].outcome = "AuthenticationRequired"
             /\ calls'[c].signals = <<>>
             /\ ~calls'[c].issued
             /\ UNCHANGED <<Property, PropertyImage, storage, pending>>]_vars

C8_Witness ==
    /\ PropertyImage # {}
    /\ \E c \in CallIds :
          /\ calls[c].op = "delete" /\ calls[c].user = NoUser
          /\ calls[c].propertyId \in DOMAIN Property
          /\ calls[c].pc = "done" /\ calls[c].outcome = "AuthenticationRequired"

\* C9: the location of every PropertyImage row names a file that exists in
\* the bucket.
C9_ImageRowsResolve ==
    \A r \in PropertyImage :
        \E k \in DOMAIN storage : GetPublicUrl(k) = r.image_url

\* C10: every PropertyImage row references a Property row that exists.
C10_NoOrphanImageRows ==
    \A r \in PropertyImage : r.property_id \in DOMAIN Property

C10_Witness ==
    \E c \in CallIds :
        /\ calls[c].op \in {"create", "update"}
        /\ calls[c].outcome = "PersistenceFailure"
        /\ calls[c].imageUrls # <<>>
        /\ calls[c].propertyId \notin DOMAIN Property
        /\ \E d \in CallIds :
              /\ calls[d].op = "delete" /\ calls[d].outcome = "completed"
              /\ calls[d].propertyId = calls[c].propertyId

\* C11: when a createProperty call with n valid image files completes, every
\* store call having succeeded, exactly one Property row was added by it and
\* is owned by the caller, exactly n PropertyImage rows reference it, and
\* each row's location is one this call's uploads returned and names a file
\* in the property's folder; with n = 0 the call returns from the insert
\* step, having issued no upload and no PropertyImage insert.
C11_CreateSuccess ==
    [][\A c \in CallIds :
          LET id == calls'[c].propertyId
              n == Len(calls'[c].validImages)
          IN  /\ (calls[c].op = "create" /\ calls[c].pc = "insertProperty"
                     /\ calls'[c].pc \in {"upload", "done"}
                     /\ calls'[c].outcome \in {"none", "completed"})
                  => /\ id \notin DOMAIN Property
                     /\ DOMAIN Property' = DOMAIN Property \cup {id}
                     /\ \A p \in DOMAIN Property : Property'[p] = Property[p]
                     /\ Property'[id].user_id = calls[c].user
              /\ (calls[c].op = "create" /\ calls[c].pc \in {"upload", "saveImageUrls"}
                     /\ calls'[c].pc # "rollback")
                  => UNCHANGED Property
              /\ (calls[c].op = "create" /\ Returns(c)
                     /\ calls'[c].outcome = "completed")
                  => /\ id \in DOMAIN Property'
                     /\ Property'[id].user_id = calls[c].user
                     /\ Cardinality({r \in PropertyImage' : r.property_id = id}) = n
                     /\ \A r \in PropertyImage' :
                           r.property_id = id
                           => /\ r.image_url \in Range(calls'[c].imageUrls)
                              /\ \E k \in DOMAIN storage' :
                                    /\ GetPublicUrl(k) = r.image_url
                                    /\ k[2] = id
                                    /\ storage'[k] > 0
                     /\ n = 0 => /\ calls[c].pc = "insertProperty"
                                 /\ UNCHANGED <<PropertyImage, storage, pending, nextFile>>]_vars

C11_Witness ==
    \E c \in CallIds :
        /\ calls[c].op = "create" /\ calls[c].pc = "done"
        /\ calls[c].outcome = "completed"
        /\ Len(calls[c].validImages) = MaxFiles
        /\ Cardinality(RowsOf(calls[c].propertyId)) = MaxFiles

\* the step of an updateProperty call that matched the caller's row removes
\* the rows of the deleted locations: its metadata delete returned no error
DeletesRows(c) ==
    /\ calls[c].op = "update" /\ calls[c].pc = "deleteImageRows"
    /\ calls[c].matched /\ StepOf(c) /\ ~calls'[c].deleteDbError

\* the uploads and the batch insert of a matched updateProperty call all
\* succeeded and the call returns: one row per new file references X, and
\* the rows of the batch are new
AddsRows(c) ==
    (calls[c].op = "update" /\ calls[c].matched /\ Returns(c)
        /\ calls'[c].outcome = "completed"
        /\ Len(calls'[c].imageUrls) = Len(calls'[c].validImages))
    => /\ \A url \in Range(calls'[c].imageUrls) :
             /\ [property_id |-> calls[c].propertyId, image_url |-> url] \in PropertyImage'
             /\ \A r \in PropertyImage : r.image_url # url
       /\ Cardinality(PropertyImage' \ PropertyImage) = Len(calls'[c].validImages)

\* a step of an updateProperty call leaves the owner of every Property row,
\* the set of rows and every row but X as they were
KeepsOtherFields(c) ==
    (calls[c].op = "update" /\ StepOf(c))
    => /\ DOMAIN Property' = DOMAIN Property
       /\ \A p \in DOMAIN Property :
             /\ Property'[p].user_id = Property[p].user_id
             /\ (p # calls[c].propertyId \/ calls[c].pc # "updateProperty")
                   => Property'[p] = Property[p]

\* C12 as stated: after the owner's updateProperty on X with deleted
\* locations D and new files F, every store call having succeeded, no
\* PropertyImage row at all has a location in D, one new row referencing X
\* exists per file of F, and the fields the update does not write are kept.
C12_UpdateReconciles ==
    [][\A c \in CallIds :
          /\ DeletesRows(c)
                => \A r \in PropertyImage' :
                      r.image_url \notin Range(calls[c].deletedImageUrls)
          /\ AddsRows(c)
          /\ KeepsOtherFields(c)]_vars

\* C12 amended: no PropertyImage row of a property the caller owns has a
\* location in D; the rest as stated.
C12_UpdateReconcilesOwned ==
    [][\A c \in CallIds :
          /\ DeletesRows(c)
                => \A r \in PropertyImage' :
                      OwnsImage(calls[c].user, r)
                      => r.image_url \notin Range(calls[c].deletedImageUrls)
          /\ AddsRows(c)
          /\ KeepsOtherFields(c)]_vars

\* the owner's update removed a row of X by location and added MaxFiles rows
C12_Witness ==
    \E c \in CallIds :
        /\ calls[c].op = "update" /\ calls[c].pc = "done" /\ calls[c].matched
        /\ calls[c].outcome = "completed" /\ ~calls[c].deleteDbError
        /\ Len(calls[c].validImages) = MaxFiles
        /\ Cardinality(RowsOf(calls[c].propertyId)) = MaxFiles
        /\ \E k \in DOMAIN storage :
              /\ k[2] = calls[c].propertyId
              /\ \A r \in PropertyImage : r.image_url # GetPublicUrl(k)

\* C14: an updateProperty call whose row update committed returns completed
\* whatever fails afterwards, and the row keeps the fields it wrote.
C14_ReconciliationContained ==
    \A c \in CallIds :
        (calls[c].op = "update" /\ calls[c].pc = "done" /\ calls[c].matched)
        => /\ calls[c].outcome = "completed"
           /\ calls[c].propertyId \in DOMAIN Property
           /\ Property[calls[c].propertyId].listing_title = calls[c].title

\* C15: a createProperty or updateProperty call whose form carries a rating
\* outside 1..5 ends at once with ValidationFailure, no store operation
\* issued and the stores unchanged.
C15_ValidationFirst ==
    [][\A c \in CallIds :
          (calls[c].pc \in {"insertProperty", "updateProperty"}
              /\ ~RateCheck(calls[c].rate) /\ StepOf(c))
          => /\ calls'[c].pc = "done"
             /\ calls'[c].outcome = "ValidationFailure"
             /\ ~calls'[c].issued
             /\ UNCHANGED <<Property, PropertyImage, storage, pending>>]_vars

\* files stored under the folder of a property
FilesOf(id) == {k \in DOMAIN storage : k[2] = id}

\* C13: once the owner's deleteProperty(P) has completed, having read P's
\* image locations, and every remove request handed to the bucket has been
\* answered, no file that a PropertyImage row of P located remains in the
\* bucket.
C13_DeleteRemovesFiles ==
    \A c \in CallIds :
        (calls[c].op = "delete" /\ calls[c].pc = "done"
            /\ calls[c].outcome = "completed" /\ calls[c].selected.ok
            /\ calls[c].propertyId \notin DOMAIN Property
            /\ pending = {})
        => \A k \in FilesOf(calls[c].propertyId) :
              GetPublicUrl(k) \notin calls[c].selected.urls

\* the property exists and belongs to a user other than this one
OwnedByOther(user, id) == id \in DOMAIN Property /\ Property[id].user_id # user

\* C16: no step of a call reads, changes or deletes a Property row, a
\* PropertyImage row or a stored file of a property that belongs to another
\* user: rows and files of such a property stay as they are, no file is put
\* into its folder, no location of its rows is read, and no remove request
\* names one of its files.
C16_OwnershipGuard ==
    [][\A c \in CallIds :
          (calls[c].pc \notin {"idle", "done", "returned"} /\ StepOf(c))
          => LET user == calls[c].user
             IN  /\ \A id \in DOMAIN Property :
                       OwnedByOther(user, id)
                       => /\ id \in DOMAIN Property' /\ Property'[id] = Property[id]
                          /\ {r \in PropertyImage' : r.property_id = id} = RowsOf(id)
                          /\ {k \in DOMAIN storage' : k[2] = id} = FilesOf(id)
                          /\ \A k \in FilesOf(id) : k \in pending' => k \in pending
                 /\ \A r \in PropertyImage :
                       OwnedByOther(user, r.property_id)
                       => r.image_url \notin calls'[c].selected.urls]_vars

\* C17: the images list of AddPropertyForm never holds more than 5 files,
\* whatever files are added and removed, so the form data built from it on
\* submit carries at most 5 images.
C17_FormImageLimit == Len(addPropertyForm.images) <= MaxImages

\* the list is full after files were chosen twice
C17_Witness ==
    /\ addPropertyForm.mounted
    /\ Len(addPropertyForm.images) = MaxImages

\* object keys the step puts into the bucket
NewFiles == DOMAIN storage' \ DOMAIN storage

\* the step stores exactly one file, validImages[i] of the call, and appends
\* its public URL to the call's imageUrls
UploadsNext(c) ==
    /\ Cardinality(NewFiles) = 1
    /\ \A k \in NewFiles :
          /\ k[2] = calls[c].propertyId
          /\ storage'[k] = calls[c].validImages[calls[c].i]
          /\ calls'[c].imageUrls = Append(calls[c].imageUrls, GetPublicUrl(k))
    /\ \A k \in DOMAIN storage : storage'[k] = storage[k]

\* C18: createProperty uploads one file per step in input order: upload i is
\* made only when uploads 1..i-1 succeeded and stores validImages[i]; an
\* upload that fails at index k stores nothing, leaves exactly the k-1 files
\* before it uploaded, and sends the call to its rollback; outside its upload
\* steps the call stores no file, so no upload follows a failed one.
C18_SequentialUploads ==
    [][\A c \in CallIds :
          (calls[c].op = "create" /\ StepOf(c))
          => IF calls[c].pc = "upload"
             THEN /\ calls[c].i = Len(calls[c].imageUrls) + 1
                  /\ calls[c].i <= Len(calls[c].validImages)
                  /\ calls'[c].i = calls[c].i + 1
                  /\ \/ /\ UploadsNext(c)
                        /\ calls'[c].pc = IF calls[c].i = Len(calls[c].validImages)
                                          THEN "saveImageUrls" ELSE "upload"
                     \/ /\ UNCHANGED <<storage, nextFile>>
                        /\ calls'[c].imageUrls = calls[c].imageUrls
                        /\ calls'[c].pc = "rollback"
                        /\ calls'[c].outcome = "UploadFailure"
             ELSE /\ UNCHANGED <<storage, nextFile>>
                  /\ calls'[c].pc # "upload" \/ calls[c].pc = "insertProperty"]_vars

\* the second of two uploads failed: one file is stored, the call is over
C18_Witness ==
    \E c \in CallIds :
        /\ calls[c].op = "create" /\ calls[c].pc = "done"
        /\ calls[c].outcome = "UploadFailure"
        /\ Len(calls[c].validImages) = MaxFiles /\ calls[c].i = MaxFiles + 1
        /\ Len(calls[c].imageUrls) = MaxFiles - 1
        /\ \A url \in Range(calls[c].imageUrls) :
              \E k \in DOMAIN storage : GetPublicUrl(k) = url

\* C19: when createProperty returns a failure after its rollback, the
\* rollback has issued no remove request, every file the call uploaded is
\* still in the bucket, no PropertyImage row holds its location, and the
\* property of its folder does not exist.
C19_RollbackKeepsFiles ==
    [][\A c \in CallIds :
          (calls[c].op = "create" /\ calls[c].pc = "rollback" /\ Returns(c))
          => /\ UNCHANGED <<storage, pending>>
             /\ \A url \in Range(calls[c].imageUrls) :
                   /\ \E k \in DOMAIN storage' :
                         /\ GetPublicUrl(k) = url
                         /\ k[2] \notin DOMAIN Property'
                   /\ \A r \in PropertyImage' : r.image_url # url]_vars

\* C20: in updateProperty every upload step moves on to the next file
\* whether the upload succeeded or failed, a failed one adding nothing to
\* imageUrls; after the last file the call inserts one PropertyImage row per
\* uploaded file, and issues no insert when no upload succeeded.
C20_UpdateSkipsFailedUploads ==
    [][\A c \in CallIds :
          (calls[c].op = "update" /\ StepOf(c))
          => /\ calls[c].pc = "upload"
                => /\ calls[c].i <= Len(calls[c].validImages)
                   /\ calls'[c].i = calls[c].i + 1
                   /\ UNCHANGED <<Property, PropertyImage>>
                   /\ \/ UploadsNext(c)
                      \/ /\ UNCHANGED <<storage, nextFile>>
                         /\ calls'[c].imageUrls = calls[c].imageUrls
                   /\ calls'[c].pc =
                         IF calls[c].i < Len(calls[c].validImages) THEN "upload"
                         ELSE IF calls'[c].imageUrls # <<>> THEN "saveImageUrls"
                         ELSE "done"
                   /\ calls'[c].pc = "done" => calls'[c].outcome = "completed"
             /\ calls[c].pc = "saveImageUrls"
                => LET batch == {[property_id |-> calls[c].propertyId, image_url |-> url] :
                                    url \in Range(calls[c].imageUrls)}
                   IN  /\ Cardinality(batch) = Len(calls[c].imageUrls)
                       /\ batch \cap PropertyImage = {}
                       /\ PropertyImage' = IF calls'[c].outcome = "completed"
                                           THEN PropertyImage \cup batch
                                           ELSE PropertyImage
             /\ calls[c].pc \notin {"upload", "saveImageUrls", "deleteImageRows"}
                => PropertyImage' = PropertyImage]_vars

\* of two new files the call uploaded one and inserted one row
C20_Witness ==
    \E c \in CallIds :
        /\ calls[c].op = "update" /\ calls[c].pc = "done" /\ calls[c].matched
        /\ calls[c].outcome = "completed"
        /\ Len(calls[c].validImages) = MaxFiles /\ calls[c].i = MaxFiles + 1
        /\ Len(calls[c].imageUrls) = 1
        /\ RowsOf(calls[c].propertyId) =
              {[property_id |-> calls[c].propertyId, image_url |-> calls[c].imageUrls[1]]}

\* C21: in updateProperty a remove request is handed to the bucket only in
\* the step in which the batched PropertyImage deletion returns, for the
\* locations marked; no step before it issues one, that step uploads
\* nothing, and the upload steps come after it, never before.
C21_RowsBeforeFiles ==
    [][\A c \in CallIds :
          (calls[c].op = "update" /\ StepOf(c))
          => /\ calls[c].pc # "deleteImageRows" => pending' = pending
             /\ calls[c].pc = "deleteImageRows"
                => /\ \A k \in pending' \ pending :
                         \E url \in Range(calls[c].deletedImageUrls) : k \in RemoveKeys(url)
                   /\ UNCHANGED <<storage, nextFile>>
                   /\ calls'[c].imageUrls = <<>> /\ calls'[c].i = 1
             /\ calls'[c].pc = "deleteImageRows" => calls[c].pc = "updateProperty"
             /\ calls[c].pc # "upload" => UNCHANGED <<storage, nextFile>>]_vars

\* the row deletion returned, the request is out, the upload is still to come
C21_Witness ==
    \E c \in CallIds :
        /\ calls[c].op = "update" /\ calls[c].pc = "upload" /\ calls[c].i = 1
        /\ calls[c].matched /\ ~calls[c].deleteDbError
        /\ pending # {}
        /\ RowsOf(calls[c].propertyId) = {}
        /\ FilesOf(calls[c].propertyId) # {}

\* C22: deleteProperty reads the locations in a step that changes nothing,
\* before the step that deletes the row; remove requests are handed to the
\* bucket only in the step in which the row deletion returns without error,
\* one for every location the read captured and for no other.
C22_DeleteOrder ==
    [][\A c \in CallIds :
          (calls[c].op = "delete" /\ StepOf(c))
          => /\ calls[c].pc = "selectImages"
                => /\ UNCHANGED <<Property, PropertyImage, storage, pending>>
                   /\ calls'[c].pc = "deleteProperty"
                   /\ calls'[c].selected.urls \subseteq
                         {r.image_url : r \in RowsOf(calls[c].propertyId)}
             /\ calls[c].pc = "deleteProperty"
                => /\ calls'[c].pc = "done"
                   /\ pending' = IF calls'[c].outcome = "completed"
                                 THEN pending \cup
                                      UNION {RemoveKeys(url) : url \in calls[c].selected.urls}
                                 ELSE pending
                   /\ calls'[c].outcome # "completed"
                         => UNCHANGED <<Property, PropertyImage>>
                   /\ (calls'[c].outcome = "completed"
                         /\ OwnsProperty(calls[c].user, calls[c].propertyId))
                         => calls[c].propertyId \notin DOMAIN Property']_vars

\* the owner's delete completed with two locations captured and requested
C22_Witness ==
    \E c \in CallIds :
        /\ calls[c].op = "delete" /\ calls[c].pc = "done"
        /\ calls[c].outcome = "completed"
        /\ Cardinality(calls[c].selected.urls) = MaxFiles
        /\ Cardinality(pending) = MaxFiles
        /\ calls[c].propertyId \notin DOMAIN Property

\* C23: when the Property row update of updateProperty or the Property row
\* deletion of deleteProperty returns an error, the call ends in that step
\* with the failure and without signals, and tables, bucket and requests
\* are as they were.
C23_PrimaryFailureStops ==
    [][\A c \in CallIds :
          (calls[c].pc \in {"updateProperty", "deleteProperty"} /\ StepOf(c))
          => /\ calls'[c].pc = "done" => calls'[c].outcome \in {"completed", "PersistenceFailure"}
             /\ (calls'[c].pc = "done" /\ calls'[c].outcome = "PersistenceFailure")
                   => /\ calls'[c].signals = <<>>
                      /\ UNCHANGED <<Property, PropertyImage, storage, pending, nextFile>>
             /\ (calls'[c].pc # "done" \/ calls'[c].outcome = "completed")
                   => \/ calls'[c].matched
                      \/ ~OwnsProperty(calls[c].user, calls[c].propertyId)
                      \/ calls[c].op = "delete"]_vars

\* the row deletion failed after locations had been read: nothing is requested
C23_Witness ==
    \E c \in CallIds :
        /\ calls[c].op = "delete" /\ calls[c].pc = "done"
        /\ calls[c].outcome = "PersistenceFailure"
        /\ calls[c].selected.urls # {}
        /\ pending = {}
        /\ RowsOf(calls[c].propertyId) # {}

\* C24: a call that has ended either completed, with the cache-refresh
\* signal followed by the navigation signal, or raised a failure, with no
\* signal; a createProperty that went through its compensating delete raised.
C24_OutcomeAndSignals ==
    /\ \A c \in CallIds :
          calls[c].pc = "done"
          => \/ /\ calls[c].outcome = "completed"
                /\ calls[c].signals = <<"revalidate", "redirect">>
             \/ /\ calls[c].outcome \in {"AuthenticationRequired", "UploadFailure",
                                          "PersistenceFailure"}
                /\ calls[c].signals = <<>>
    /\ \A c \in CallIds :
          (calls[c].pc = "rollback" \/ calls[c].outcome \in {"UploadFailure"})
          => calls[c].signals = <<>>

\* a create has returned its failure after the compensating delete
C24_Witness ==
    \E c \in CallIds :
        /\ calls[c].op = "create" /\ calls[c].pc = "done"
        /\ calls[c].outcome = "UploadFailure"
        /\ calls[c].propertyId \notin DOMAIN Property
        /\ calls[c].signals = <<>>

\* C25 as stated: only updateProperty hands a request to the bucket without
\* awaiting it; no step of createProperty or deleteProperty, its last step
\* included, leaves a request of its own unanswered.
C25_OnlyUpdateForgets ==
    [][\A c \in CallIds :
          (StepOf(c) /\ ~(pending' \subseteq pending)) => calls[c].op = "update"]_vars

\* C25, amended: requests are left unanswered only by the step of
\* updateProperty in which the PropertyImage deletion returns and by the
\* step of deleteProperty in which the Property deletion returns without
\* error; no step of createProperty leaves one, so a createProperty that
\* signals completion has nothing of its own pending.
C25_ForgetsInUpdateAndDelete ==
    [][\A c \in CallIds :
          (StepOf(c) /\ ~(pending' \subseteq pending))
          => \/ calls[c].op = "update" /\ calls[c].pc = "deleteImageRows"
             \/ /\ calls[c].op = "delete" /\ calls[c].pc = "deleteProperty"
                /\ calls'[c].outcome = "completed"]_vars

\* an updateProperty has signalled completion with a removal still out
C25_Witness ==
    \E c \in CallIds :
        /\ calls[c].op = "update" /\ calls[c].pc = "done"
        /\ calls[c].outcome = "completed"
        /\ calls[c].imageUrls # <<>>
        /\ pending # {}

\* C26: the answer of the bucket to one remove request, failure included,
\* takes that request alone off the outstanding ones, and touches neither
\* a call's outcome nor the Property and PropertyImage tables; a failure
\* leaves the bucket as it was.
C26_RemovalFailureContained ==
    [][\A key \in pending :
          (key \notin pending' /\ UNCHANGED calls)
          => /\ pending' = pending \ {key}
             /\ UNCHANGED <<Property, PropertyImage>>
             /\ DOMAIN storage \ {key} \subseteq DOMAIN storage']_vars

\* deleteProperty completed with two removals out; one has been answered
\* and removed nothing, the other is still to be attempted
C26_Witness ==
    \E c \in CallIds :
        /\ calls[c].op = "delete" /\ calls[c].pc = "done"
        /\ calls[c].outcome = "completed"
        /\ Cardinality(calls[c].selected.urls) = MaxFiles
        /\ Cardinality(pending) = 1
        /\ Cardinality(FilesOf(calls[c].propertyId)) = MaxFiles
        /\ calls[c].propertyId \notin DOMAIN Property
        /\ RowsOf(calls[c].propertyId) = {}

\* C27: when every issued store call eventually returns, an invocation
\* that is under way eventually ends, completed or failed.
C27_Terminates ==
    \A c \in CallIds :
        (calls[c].pc \notin {"idle", "done", "returned"}) ~> (calls[c].pc = "done")

\* an updateProperty with a marked location and two files has ended
C27_Witness ==
    \E c \in CallIds :
        /\ calls[c].op = "update" /\ calls[c].pc = "done"
        /\ calls[c].i = MaxFiles + 1
        /\ Len(calls[c].validImages) = MaxFiles
        /\ pending # {}

\* C28: a step of updateProperty(X, ...) removes no PropertyImage row of a
\* property other than X and asks the bucket to remove no stored file
\* outside the folder of X.
C28_UpdateFrame ==
    [][\A c \in CallIds :
          (calls[c].op = "update" /\ StepOf(c))
          => /\ \A r \in PropertyImage \ PropertyImage' :
                   r.property_id = calls[c].propertyId
             /\ \A k \in (pending' \ pending) \cap DOMAIN storage :
                   k \in FilesOf(calls[c].propertyId)]_vars

\* C29: for a marked location that a PropertyImage row holds,
\* updateProperty asks the bucket to remove the file only when the step
\* removed a row with that location.
C29_FilesFollowRows ==
    [][\A c \in CallIds :
          (calls[c].op = "update" /\ StepOf(c))
          => \A url \in Range(calls[c].deletedImageUrls) \cap
                       {r.image_url : r \in PropertyImage} :
                (RemoveKeys(url) # {} /\ RemoveKeys(url) \subseteq pending' \ pending)
                => \E r \in PropertyImage \ PropertyImage' : r.image_url = url]_vars

\* C30: deleteProperty(P) and updateProperty(P, new files) of the owner
\* have overlapped, both have completed with every store call answered
\* without error, and no removal is outstanding: every
\* file the update stored under P is located by a PropertyImage row or is
\* one of the locations the delete captured and asked the bucket to remove.
\* (The update marks its locations before it uploads, so the delete's are
\* the only attempts that can name a file the update stored.)
C30_RaceLeavesNoUntrackedFile ==
    \A d \in CallIds, u \in CallIds :
        (/\ calls[d].op = "delete" /\ calls[d].pc = "done"
         /\ calls[u].op = "update" /\ calls[u].pc = "done"
         /\ calls[d].outcome = "completed" /\ calls[u].outcome = "completed"
         /\ calls[d].selected.ok
         /\ calls[d].propertyId = calls[u].propertyId
         /\ calls[d].user = calls[u].user /\ calls[u].matched
         /\ pending = {})
        => \A k \in FilesOf(calls[u].propertyId) :
              GetPublicUrl(k) \in Range(calls[u].imageUrls)
              => \/ \E r \in PropertyImage : r.image_url = GetPublicUrl(k)
                 \/ GetPublicUrl(k) \in calls[d].selected.urls

====
